---- MODULE Spec2Model ----
(***************************************************************************)
(* SmartSecure: upload handler (main.py), LLM client (gpt.py) and the      *)
(* report pipeline (report.py): parse -> score -> align -> render.         *)
(*                                                                         *)
(* Python floats are IEEE-754 doubles.  A non-negative double below 512 is *)
(* kept exactly as an integer number of units of 2^-54, held in three      *)
(* limbs <<hi, mid, lo>> of LimbBits bits each, and every arithmetic       *)
(* operation rounds its exact result to 53 significant bits, ties to even. *)
(***************************************************************************)
EXTENDS Integers, Sequences, FiniteSets, TLC

VARIABLES
    vulnerabilities,    \* the argument of SecurityScoreCalculator.calculate
    security_score,     \* what calculate returned for it
    temp_report_data,   \* the hand-off file temp_report_data.json
    page,               \* what the dashboard shows
    rendered_at,        \* n_runs when the page was last loaded, -1 before
    uploaded_contracts, \* the file names saved in UPLOAD_DIR
    slither_results,    \* the files of RESULT_DIR: path -> analyzer document
    http_response,      \* the answer of the last upload request
    streamlit_running,  \* whether the dashboard server was started
    run,                \* the most recent analysis-phase operation
    n_runs              \* analysis-phase operations so far

scoreVars == <<vulnerabilities, security_score>>

reportVars == <<temp_report_data, page, rendered_at>>

systemVars == <<uploaded_contracts, slither_results, http_response, streamlit_running, run, n_runs>>

vars == <<scoreVars, reportVars, systemVars>>

(* ------------------------------ bounds --------------------------------- *)

MaxFindings == 3

MaxLongFindings == 13

MaxRecords == 2

MaxRuns == 3

\* findings of a report with one finding per id, each of any of three impacts
MaxGrouped == 3

(* ------------------------- double arithmetic --------------------------- *)

LimbBits == 21

LimbBase == 2^LimbBits

\* carry (or borrow) propagation; the top limb is left unbounded
Norm(h, m, l) ==
    LET m2 == m + (l \div LimbBase)
    IN  <<h + (m2 \div LimbBase), m2 % LimbBase, l % LimbBase>>

FAddExact(a, b) == Norm(a[1] + b[1], a[2] + b[2], a[3] + b[3])

FSubExact(a, b) == Norm(a[1] - b[1], a[2] - b[2], a[3] - b[3])

FMulExact(n, a) == Norm(n * a[1], n * a[2], n * a[3])

FLess(a, b) ==
    \/ a[1] < b[1]
    \/ a[1] = b[1] /\ a[2] < b[2]
    \/ a[1] = b[1] /\ a[2] = b[2] /\ a[3] < b[3]

FGeq(a, b) == ~FLess(a, b)

\* number of low bits that do not fit in a 53-bit significand:
\* bit 53 of the value is bit 11 of the top limb
DropBits(a) ==
    IF a[1] < 2^11 THEN 0
    ELSE CHOOSE s \in 1..LimbBits : 2^(10 + s) <= a[1] /\ a[1] < 2^(11 + s)

\* round to nearest double, ties to even
Round53(a) ==
    LET s    == DropBits(a)
        p    == 2^s
        r    == a[3] % p
        odd  == (a[3] \div p) % 2 = 1
        up   == r * 2 > p \/ (r * 2 = p /\ odd)
    IN  IF s = 0 THEN a
        ELSE Norm(a[1], a[2], a[3] - r + (IF up THEN p ELSE 0))

FromInt(n) == <<n * 2^12, 0, 0>>

F_0_7 == <<2867, 419430, 838860>>

F_0_4 == <<1638, 838860, 1677722>>

F_0_5 == <<2048, 0, 0>>

\* int * float
FMul(n, a) == Round53(FMulExact(n, a))

\* float + float
FAdd(a, b) == Round53(FAddExact(a, b))

\* float - float, for a >= b
FSub(a, b) == Round53(FSubExact(a, b))

\* round(x, 1): the nearest multiple of 0.1, ties to even, as a number of tenths
Round1(a) ==
    LET t   == FMulExact(10, a)
        q   == t[1] \div 2^12
        rh  == t[1] % 2^12
        gt  == rh > 2^11 \/ (rh = 2^11 /\ (t[2] > 0 \/ t[3] > 0))
        tie == rh = 2^11 /\ t[2] = 0 /\ t[3] = 0
    IN  IF gt \/ (tie /\ q % 2 = 1) THEN q + 1 ELSE q

(* ------------------------------ domain --------------------------------- *)

ImpactLevel == {"High", "Medium", "Low", "Informational", "Optimization"}

\* the dataclass Vulnerability
Vulnerability(id, check, impact, confidence, description, elements) ==
    [id |-> id, check |-> check, impact |-> impact, confidence |-> confidence,
     description |-> description, elements |-> elements]

\* the dataclass Vulnerability_GPT
Vulnerability_GPT(id, title, explanation) ==
    [id |-> id, title |-> title, explanation |-> explanation]

ConfidenceLevel == {"High", "Medium", "Low"}

\* the weight table with the Low and Informational weights exchanged
IMPACT_WEIGHTS_LowInformationalSwapped ==
    [i \in ImpactLevel |->
        CASE i = "High" -> 20
          [] i = "Medium" -> 10
          [] i = "Low" -> 2
          [] i = "Informational" -> 5
          [] i = "Optimization" -> 0]

IMPACT_WEIGHTS ==
    [i \in ImpactLevel |->
        CASE i = "High" -> 20
          [] i = "Medium" -> 10
          [] i = "Low" -> 5
          [] i = "Informational" -> 2
          [] i = "Optimization" -> 0]

CONFIDENCE_MULTIPLIERS ==
    [c \in ConfidenceLevel |->
        CASE c = "High" -> FromInt(1)
          [] c = "Medium" -> F_0_7
          [] c = "Low" -> F_0_4]

\* dict.get(key, default)
DictGet(d, key, default) == IF key \in DOMAIN d THEN d[key] ELSE default

STATUS_VERY_SAFE == "recommended, very safe"

STATUS_CAUTION == "deployable with caution"

STATUS_FIX == "fix required before deployment"

STATUS_PROHIBITED == "deployment prohibited"

get_deployment_status(score) ==
    IF FGeq(score, FromInt(90)) THEN STATUS_VERY_SAFE
    ELSE IF FGeq(score, FromInt(70)) THEN STATUS_CAUTION
    ELSE IF FGeq(score, FromInt(50)) THEN STATUS_FIX
    ELSE STATUS_PROHIBITED

ZeroCounts == [i \in ImpactLevel |-> 0]

\* the loop of calculate from position k on, acc holding impact_counts and
\* total_deduction so far: the tally fails with KeyError on the first impact
\* that is not a key of impact_counts
RECURSIVE ScoreLoop(_, _, _)
ScoreLoop(vulns, k, acc) ==
    IF k > Len(vulns) THEN acc
    ELSE IF vulns[k].impact \notin DOMAIN acc.impact_counts
         THEN [acc EXCEPT !.error = "KeyError"]
         ELSE LET impact_score     == DictGet(IMPACT_WEIGHTS, vulns[k].impact, 1)
                  confidence_ratio == DictGet(CONFIDENCE_MULTIPLIERS, vulns[k].confidence, F_0_5)
                  deduction        == FMul(impact_score, confidence_ratio)
              IN  ScoreLoop(vulns, k + 1,
                            [error |-> "none",
                             impact_counts |-> [acc.impact_counts EXCEPT ![vulns[k].impact] = @ + 1],
                             total_deduction |-> FAdd(acc.total_deduction, deduction)])

\* calculate with the score taken as 100 - total_deduction, no lower bound
calculate_Unclamped(vulns) ==
    IF Len(vulns) = 0
    THEN [error |-> "none", total_score |-> 1000, impact_counts |-> ZeroCounts,
          deployment_status |-> STATUS_VERY_SAFE, total_deduction |-> 0]
    ELSE LET loop  == ScoreLoop(vulns, 1, [error |-> "none", impact_counts |-> ZeroCounts,
                                             total_deduction |-> FromInt(0)])
             total == loop.total_deduction
         IN  IF loop.error # "none"
             THEN [error |-> loop.error]
             ELSE [error |-> "none",
                   total_score |-> 1000 - Round1(total),
                   impact_counts |-> loop.impact_counts,
                   deployment_status |->
                       IF FLess(total, FromInt(100))
                       THEN get_deployment_status(FSub(FromInt(100), total))
                       ELSE STATUS_PROHIBITED,
                   total_deduction |-> Round1(total)]

\* calculate with the score taken as the distance of total_deduction from 100
calculate_Distance(vulns) ==
    IF Len(vulns) = 0
    THEN [error |-> "none", total_score |-> 1000, impact_counts |-> ZeroCounts,
          deployment_status |-> STATUS_VERY_SAFE, total_deduction |-> 0]
    ELSE LET loop        == ScoreLoop(vulns, 1, [error |-> "none", impact_counts |-> ZeroCounts,
                                                   total_deduction |-> FromInt(0)])
             total       == loop.total_deduction
             final_score == IF FLess(total, FromInt(100)) THEN FSub(FromInt(100), total)
                            ELSE FSub(total, FromInt(100))
         IN  IF loop.error # "none"
             THEN [error |-> loop.error]
             ELSE [error |-> "none",
                   total_score |-> Round1(final_score),
                   impact_counts |-> loop.impact_counts,
                   deployment_status |-> get_deployment_status(final_score),
                   total_deduction |-> Round1(total)]

\* SecurityScore as returned: total_score and total_deduction in tenths
calculate(vulns) ==
    IF Len(vulns) = 0
    THEN [error |-> "none", total_score |-> 1000, impact_counts |-> ZeroCounts,
          deployment_status |-> STATUS_VERY_SAFE, total_deduction |-> 0]
    ELSE LET loop        == ScoreLoop(vulns, 1, [error |-> "none", impact_counts |-> ZeroCounts,
                                                   total_deduction |-> FromInt(0)])
             total       == loop.total_deduction
             final_score == IF FLess(total, FromInt(100)) THEN FSub(FromInt(100), total)
                            ELSE FromInt(0)
         IN  IF loop.error # "none"
             THEN [error |-> loop.error]
             ELSE [error |-> "none",
                   total_score |-> Round1(final_score),
                   impact_counts |-> loop.impact_counts,
                   deployment_status |-> get_deployment_status(final_score),
                   total_deduction |-> Round1(total)]

(* --------------------------- report pipeline --------------------------- *)
\* A JSON object (a Python dict) is a function from the keys it holds: a
\* record, the empty dict being <<>>.  A list is a sequence.

RECURSIVE WithoutRepeats(_)
\* a sequence with every element that repeats an earlier one left out
WithoutRepeats(records) ==
    IF records = <<>> THEN <<>>
    ELSE LET before == WithoutRepeats(SubSeq(records, 1, Len(records) - 1))
             last   == records[Len(records)]
         IN  IF \E k \in 1..Len(before) : before[k] = last THEN before
             ELSE Append(before, last)

\* the parser with repeated detector records dropped
SlitherDataParser_parse_Deduplicated(json_data) ==
    IF "results" \notin DOMAIN json_data \/ "detectors" \notin DOMAIN json_data.results
    THEN [vulnerabilities |-> <<>>, raw_detectors |-> <<>>]
    ELSE LET detectors == WithoutRepeats(json_data.results.detectors)
         IN  [vulnerabilities |->
                 [k \in 1..Len(detectors) |->
                     Vulnerability(DictGet(detectors[k], "id", "None"),
                                   DictGet(detectors[k], "check", "Unknown"),
                                   DictGet(detectors[k], "impact", "Unknown"),
                                   DictGet(detectors[k], "confidence", "Unknown"),
                                   DictGet(detectors[k], "description", "No description"),
                                   DictGet(detectors[k], "elements", <<>>))],
              raw_detectors |-> detectors]

\* SlitherDataParser.parse
SlitherDataParser_parse(json_data) ==
    IF "results" \notin DOMAIN json_data \/ "detectors" \notin DOMAIN json_data.results
    THEN [vulnerabilities |-> <<>>, raw_detectors |-> <<>>]
    ELSE LET detectors == json_data.results.detectors
         IN  [vulnerabilities |->
                 [k \in 1..Len(detectors) |->
                     Vulnerability(DictGet(detectors[k], "id", "None"),
                                   DictGet(detectors[k], "check", "Unknown"),
                                   DictGet(detectors[k], "impact", "Unknown"),
                                   DictGet(detectors[k], "confidence", "Unknown"),
                                   DictGet(detectors[k], "description", "No description"),
                                   DictGet(detectors[k], "elements", <<>>))],
              raw_detectors |-> detectors]

\* GPTDataParser.parse
GPTDataParser_parse(detectors_gpt) ==
    [k \in 1..Len(detectors_gpt) |->
        Vulnerability_GPT(DictGet(detectors_gpt[k], "id", "None"),
                          DictGet(detectors_gpt[k], "title", "Unknown"),
                          DictGet(detectors_gpt[k], "explanation", "Unknown"))]

\* the loop of _extract_code_locations from element k on: element['name'] is
\* a plain subscript and fails with KeyError when the element has no name
RECURSIVE LocationsLoop(_, _, _)
LocationsLoop(elements, k, locations) ==
    IF k > Len(elements) THEN [error |-> "none", locations |-> locations]
    ELSE IF "source_mapping" \in DOMAIN elements[k]
         THEN IF "name" \notin DOMAIN elements[k]
              THEN [error |-> "KeyError", locations |-> locations]
              ELSE LocationsLoop(elements, k + 1,
                       Append(locations,
                              [name  |-> elements[k].name,
                               lines |-> DictGet(elements[k].source_mapping, "lines", "Unknown")]))
         ELSE LocationsLoop(elements, k + 1, locations)

extract_code_locations(raw_data) ==
    LocationsLoop(DictGet(raw_data, "elements", <<>>), 1, <<>>)

\* check_name.lower().replace(' ', '-'): the analyzer's check names are
\* lower-case and hyphenated already, the parser's default is not
Slug(check_name) == IF check_name = "Unknown" THEN "unknown" ELSE check_name

get_reference_links(check_name) == <<Slug(check_name)>>

\* VulnerabilityDetailProcessor.process
process(vulnerability, raw_data, vulnerability_gpt) ==
    LET code_locations == extract_code_locations(raw_data)
    IN  IF code_locations.error # "none"
        THEN [error |-> code_locations.error]
        ELSE [error |-> "none",
              detail |->
                 [vulnerability |-> vulnerability,
                  code_locations |-> code_locations.locations,
                  technical_explanation |->
                     <<vulnerability.check, vulnerability_gpt.title, vulnerability.impact>>,
                  personalized_explanation |-> vulnerability_gpt.explanation,
                  reference_links |-> get_reference_links(vulnerability.check)]]

Min(a, b) == IF a <= b THEN a ELSE b

\* the loop of generate_report over zip(vulnerabilities, raw_detectors,
\* vulnerabilities_gpt) from position k on: zip stops at the shortest
RECURSIVE AlignLoop(_, _, _, _, _)
AlignLoop(vulns, raws, gpts, k, details) ==
    IF k > Min(Len(vulns), Min(Len(raws), Len(gpts)))
    THEN [error |-> "none", vulnerability_details |-> details]
    ELSE IF vulns[k].id # gpts[k].id
         THEN [error |-> "AssertionError", vulnerability_details |-> details]
         ELSE LET made == process(vulns[k], raws[k], gpts[k])
              IN  IF made.error # "none"
                  THEN [error |-> made.error, vulnerability_details |-> details]
                  ELSE AlignLoop(vulns, raws, gpts, k + 1, Append(details, made.detail))

\* the grouping step with the newest detail put first in its group
AddToGroup_NewestFirst(groups, detail) ==
    LET impact == detail.vulnerability.impact
    IN  IF \E g \in 1..Len(groups) : groups[g].impact = impact
        THEN [g \in 1..Len(groups) |->
                 IF groups[g].impact = impact
                 THEN [groups[g] EXCEPT !.details = <<detail>> \o @]
                 ELSE groups[g]]
        ELSE Append(groups, [impact |-> impact, details |-> <<detail>>])

\* impact_groups.setdefault(impact, []).append(detail): a dict keeps its keys
\* in insertion order, so the groups are a sequence of [impact, details]
AddToGroup(groups, detail) ==
    LET impact == detail.vulnerability.impact
    IN  IF \E g \in 1..Len(groups) : groups[g].impact = impact
        THEN [g \in 1..Len(groups) |->
                 IF groups[g].impact = impact
                 THEN [groups[g] EXCEPT !.details = Append(@, detail)]
                 ELSE groups[g]]
        ELSE Append(groups, [impact |-> impact, details |-> <<detail>>])

RECURSIVE GroupLoop(_, _, _)
GroupLoop(vulnerability_details, k, groups) ==
    IF k > Len(vulnerability_details) THEN groups
    ELSE GroupLoop(vulnerability_details, k + 1, AddToGroup(groups, vulnerability_details[k]))

\* the tabs of render_vulnerabilities_section, one per impact group, each
\* with the cards of its details; no tabs when there are no details
render_vulnerabilities_section(vulnerability_details) ==
    GroupLoop(vulnerability_details, 1, <<>>)

\* the banner of render_security_score_section, chosen by the words of the
\* status text
StatusBanner(status) ==
    CASE status = STATUS_VERY_SAFE -> "success"
      [] status = STATUS_CAUTION -> "warning"
      [] status = STATUS_PROHIBITED -> "error"
      [] OTHER -> "none"

\* _render_complete_report: score section, summary section, findings section
render_complete_report(score, summary, vulnerability_details) ==
    [kind |-> "report",
     security_score |-> score,
     banner |-> StatusBanner(score.deployment_status),
     summary |-> summary,
     vulnerability_details |-> vulnerability_details,
     tabs |-> render_vulnerabilities_section(vulnerability_details)]

\* ReportService.generate_report: every failure happens before the first
\* rendering call
generate_report(json_data, user_prompt, summary_gpt, detectors_gpt) ==
    LET parsed == SlitherDataParser_parse(json_data)
        score  == calculate(parsed.vulnerabilities)
        gpts   == GPTDataParser_parse(detectors_gpt)
        joined == AlignLoop(parsed.vulnerabilities, parsed.raw_detectors, gpts, 1, <<>>)
    IN  IF score.error # "none" THEN [error |-> score.error]
        ELSE IF joined.error # "none" THEN [error |-> joined.error]
        ELSE [error |-> "none",
              page |-> render_complete_report(score, summary_gpt, joined.vulnerability_details)]

\* the script body of report.py, run by the dashboard on every page load
RenderedPage(file) ==
    IF file.exists
    THEN LET made == generate_report(file.data.json_data, file.data.user_prompt,
                                     file.data.summary_gpt, file.data.detectors_gpt)
         IN  IF made.error # "none"
             THEN [kind |-> "error", exception |-> made.error]
             ELSE made.page
    ELSE [kind |-> "info"]

(* ----------------------------- analysis phase -------------------------- *)
\* A file name is the sequence of its dot-separated parts: a.json.sol is
\* <<"a", "json", "sol">>.

\* Python None and JSON null
None == "<None>"

\* Path.stem: the name without its last suffix
Stem(name) == SubSeq(name, 1, Len(name) - 1)

\* report_path = RESULT_DIR / f"{sol_file_path.stem}.json"
report_path(sol_file_path) == Append(Stem(sol_file_path), "json")

\* the --json argument of the command line: "{report_path}.json"
json_argument(sol_file_path) == Append(report_path(sol_file_path), "json")

\* the directory after the analyzer ran: written is the document it wrote to
\* its --json path, or <<>> when it wrote none
AfterAnalyzer(files, sol_file_path, written) ==
    IF written = <<>> THEN files
    ELSE [p \in DOMAIN files \cup {json_argument(sol_file_path)} |->
             IF p = json_argument(sol_file_path) THEN written[1] ELSE files[p]]

\* run_slither_analysis after the subprocess ended with returncode, files
\* being the directory it left
run_slither_analysis(sol_file_path, returncode, files) ==
    IF returncode # 0 THEN [error |-> "RuntimeError"]
    ELSE IF report_path(sol_file_path) \notin DOMAIN files
         THEN [error |-> "FileNotFoundError"]
         ELSE [error |-> "none", value |-> report_path(sol_file_path)]

\* the answer of an upload handler that saved file_name and ran the analyzer
AnalysisResponse(file_name, returncode, files) ==
    LET analysis_result == run_slither_analysis(file_name, returncode, files)
    IN  IF analysis_result.error # "none"
        THEN [status |-> 500, detail |-> analysis_result.error]
        ELSE [status |-> 200,
              filename |-> file_name,
              result_json_file |-> Append(Stem(file_name), "json"),
              analysis_result |-> analysis_result.value]

\* load_json_file: None when the file cannot be read
load_json_file(files, file_path) ==
    IF file_path \in DOMAIN files
    THEN [ok |-> TRUE, json_data |-> files[file_path]]
    ELSE [ok |-> FALSE]

\* the failure test reduced to the success flag, the error field ignored
analysis_failed_SuccessFlagOnly(json_data) ==
    DictGet(json_data, "success", None) # "true"

\* the two checks of process_analysis_result on the loaded document
analysis_failed(json_data) ==
    \/ DictGet(json_data, "success", None) # "true"
    \/ DictGet(json_data, "error", None) # None

\* obj[key] on what prompt_analysis returned: a str subscripted with a str
\* raises TypeError
GetItem(obj, key) ==
    IF obj.kind = "dict" THEN [error |-> "none", value |-> obj.value[key]]
    ELSE [error |-> "TypeError"]

\* process_analysis_result: llm is what prompt_analysis returns if called
process_analysis_result(response_data, llm, files, handoff, running) ==
    LET loaded == load_json_file(files, response_data.result_json_file)
        quiet  == [llm_called |-> FALSE, handoff |-> handoff, handoff_written |-> FALSE,
                   running |-> running, server_started |-> FALSE]
    IN  IF ~loaded.ok
        THEN quiet @@ [outcome |-> "no document", loaded |-> loaded]
        ELSE IF analysis_failed(loaded.json_data)
        THEN quiet @@ [outcome |-> "analyzer reported failure", loaded |-> loaded]
        ELSE LET called  == [quiet EXCEPT !.llm_called = TRUE]
                 summary   == GetItem(llm, "summary")
                 detectors == GetItem(llm, "detectors")
             IN  IF llm.kind = "None"
                 THEN called @@ [outcome |-> "no llm response", loaded |-> loaded]
                 ELSE IF summary.error # "none"
                 THEN called @@ [outcome |-> summary.error, loaded |-> loaded]
                 ELSE IF detectors.error # "none"
                 THEN called @@ [outcome |-> detectors.error, loaded |-> loaded]
                 ELSE [llm_called |-> TRUE,
                       handoff |-> [exists |-> TRUE,
                                    data |-> [json_data |-> loaded.json_data,
                                              user_prompt |-> response_data.prompt,
                                              filename |-> response_data.filename,
                                              summary_gpt |-> summary.value,
                                              detectors_gpt |-> detectors.value]],
                       handoff_written |-> TRUE,
                       running |-> TRUE,
                       server_started |-> ~running,
                       outcome |-> "completed",
                       loaded |-> loaded]

(* --------------------- calculate as a pure function -------------------- *)

\* a string that is none of the five impact levels and none of the three
\* confidence levels: the parsers' default for a missing field
Unknown == "Unknown"

\* a parsed finding of which calculate reads impact and confidence only
Finding(impact, confidence) ==
    Vulnerability("0", "reentrancy", impact, confidence, "d", <<>>)

SeqsUpTo(S, n) == UNION {[1..k -> S] : k \in 0..n}

FindingKinds ==
    {Finding(i, c) : i \in ImpactLevel \cup {Unknown}, c \in ConfidenceLevel \cup {Unknown}}

\* long reports: many low-weight findings between a few heavy ones
LongKinds == {Finding("High", "Medium"), Finding("Informational", "Low")}

ScoreInputs == SeqsUpTo(FindingKinds, MaxFindings) \cup SeqsUpTo(LongKinds, MaxLongFindings)

NotComputed == [error |-> "pending"]

NoFile == [exists |-> FALSE]

BlankPage == [kind |-> "blank"]

NoRun == [op |-> "none"]

NoResponse == [status |-> 0]

Idle ==
    /\ uploaded_contracts = {}
    /\ slither_results = <<>>
    /\ http_response = NoResponse
    /\ streamlit_running = FALSE
    /\ run = NoRun
    /\ n_runs = 0

ScoreInit ==
    /\ vulnerabilities \in ScoreInputs
    /\ security_score = NotComputed
    /\ temp_report_data = NoFile
    /\ page = BlankPage
    /\ rendered_at = -1
    /\ Idle

Calculate ==
    /\ security_score = NotComputed
    /\ security_score' = calculate(vulnerabilities)
    /\ UNCHANGED <<vulnerabilities, reportVars, systemVars>>

ScoreNext == Calculate

SpecScore == ScoreInit /\ [][ScoreNext]_vars

(* ---------------- the render phase on a hand-off document --------------- *)

Restrict(d, keys) == [k \in keys |-> d[k]]

Without(d, key) == Restrict(d, DOMAIN d \ {key})

FullElement == [name |-> "withdraw", source_mapping |-> [lines |-> "[10, 11]"]]

ElementRecords ==
    {FullElement, Without(FullElement, "source_mapping"), Without(FullElement, "name"),
     [name |-> "withdraw", source_mapping |-> <<>>]}

Detector(id, impact, elements) ==
    [id |-> id, check |-> "reentrancy-eth", impact |-> impact, confidence |-> "High",
     description |-> "d", elements |-> elements]

\* complete records, records with one field left out, records whose element
\* is incomplete
DetectorRecords ==
    {Detector(i, m, <<FullElement>>) : i \in {"A", "B"}, m \in {"High", "Low"}}
    \cup {Without(Detector("A", "High", <<FullElement>>), f) :
              f \in {"id", "check", "impact", "confidence", "description", "elements"}}
    \cup {Detector("A", "High", <<e>>) : e \in ElementRecords}

Annotation(id) == [id |-> id, title |-> "title", explanation |-> "explanation"]

AnnotationRecords ==
    {Annotation("A"), Annotation("B")}
    \cup {Without(Annotation("A"), f) : f \in {"id", "title", "explanation"}}

AnalyzerDocument(detectors) ==
    [success |-> "true", error |-> None, results |-> [detectors |-> detectors]]

ReportDocuments ==
    {AnalyzerDocument(ds) : ds \in SeqsUpTo(DetectorRecords, MaxRecords)}
    \cup {Without(AnalyzerDocument(<<>>), "results"),
          [AnalyzerDocument(<<>>) EXCEPT !.results = <<>>]}

HandoffDocuments ==
    {[json_data |-> j, user_prompt |-> "lending", filename |-> <<"a", "sol">>,
      summary_gpt |-> "summary", detectors_gpt |-> g] :
        j \in ReportDocuments, g \in SeqsUpTo(AnnotationRecords, MaxRecords)}

FindingIds == <<"A", "B", "C", "D", "E">>

\* reports of MaxGrouped findings with distinct ids, annotated one for one
GroupedDocuments ==
    {[json_data |-> AnalyzerDocument([k \in 1..MaxGrouped |->
                                         Detector(FindingIds[k], m[k], <<FullElement>>)]),
      user_prompt |-> "lending", filename |-> <<"a", "sol">>,
      summary_gpt |-> "summary",
      detectors_gpt |-> [k \in 1..MaxGrouped |-> Annotation(FindingIds[k])]] :
        m \in [1..MaxGrouped -> {"High", "Low", "Informational"}]}

ReportInit ==
    /\ vulnerabilities = <<>>
    /\ security_score = NotComputed
    /\ temp_report_data \in {NoFile} \cup {[exists |-> TRUE, data |-> d] :
                                              d \in HandoffDocuments \cup GroupedDocuments}
    /\ page = BlankPage
    /\ rendered_at = -1
    /\ Idle

\* a page load of the dashboard
Render ==
    /\ page' = RenderedPage(temp_report_data)
    /\ rendered_at' = n_runs
    /\ UNCHANGED <<scoreVars, temp_report_data, systemVars>>

ReportNext == Render

SpecReport == ReportInit /\ [][ReportNext]_vars

(* ------------------------------ the system ------------------------------ *)

UploadNames == {<<"a", "sol">>, <<"a", "json", "sol">>, <<"a", "txt">>}

ContractNames == {<<"a">>, <<"a", "json">>}

SolNames == {n \in UploadNames : n[Len(n)] = "sol"}

\* what the analyzer may leave at its --json path
AnalyzerDocuments ==
    {AnalyzerDocument(<<Detector("A", "High", <<FullElement>>)>>),
     Without(AnalyzerDocument(<<>>), "success"),
     [success |-> "false", error |-> "compilation failed", results |-> <<>>],
     [success |-> "true", error |-> "warning", results |-> [detectors |-> <<>>]]}

AnalyzerWrites == {<<>>} \cup {<<d>> : d \in AnalyzerDocuments}

ReturnCodes == {0, 1}

\* what prompt_analysis returns: the message content, a str or None, or the
\* error message, a str; value is what the text says
LLMReturns ==
    {[kind |-> "None", text |-> "none", value |-> [summary |-> "", detectors |-> <<>>]],
     [kind |-> "str", text |-> "ai_response",
      value |-> [summary |-> "summary", detectors |-> <<Annotation("A")>>]],
     [kind |-> "str", text |-> "error_msg", value |-> [summary |-> "", detectors |-> <<>>]]}

ResponseData ==
    {[filename |-> n, prompt |-> "lending", result_json_file |-> p] :
        n \in SolNames, p \in {report_path(m) : m \in SolNames} \cup {json_argument(m) : m \in SolNames}}

Init ==
    /\ vulnerabilities = <<>>
    /\ security_score = NotComputed
    /\ temp_report_data = NoFile
    /\ page = BlankPage
    /\ rendered_at = -1
    /\ Idle

\* POST /upload/file
UploadFile(file_name, returncode, written) ==
    /\ n_runs < MaxRuns
    /\ n_runs' = n_runs + 1
    /\ IF file_name[Len(file_name)] # "sol"
       THEN /\ http_response' = [status |-> 400, detail |-> "only .sol"]
            /\ run' = [op |-> "upload", endpoint |-> "/upload/file", outcome |-> "UploadRejected"]
            /\ UNCHANGED <<uploaded_contracts, slither_results>>
       ELSE /\ uploaded_contracts' = uploaded_contracts \cup {file_name}
            /\ slither_results' = AfterAnalyzer(slither_results, file_name, written)
            /\ http_response' = AnalysisResponse(file_name, returncode, slither_results')
            /\ run' = [op |-> "upload",
                       endpoint |-> "/upload/file",
                       outcome |-> IF http_response'.status = 200 THEN "completed"
                                   ELSE "AnalyzerFailed",
                       json_argument |-> json_argument(file_name),
                       returncode |-> returncode]
    /\ UNCHANGED <<scoreVars, reportVars, streamlit_running>>

\* POST /upload/text
UploadText(contract_name, returncode, written) ==
    LET file_name == Append(contract_name, "sol")
    IN  /\ n_runs < MaxRuns
        /\ n_runs' = n_runs + 1
        /\ uploaded_contracts' = uploaded_contracts \cup {file_name}
        /\ slither_results' = AfterAnalyzer(slither_results, file_name, written)
        /\ http_response' = AnalysisResponse(file_name, returncode, slither_results')
        /\ run' = [op |-> "upload",
                   endpoint |-> "/upload/text",
                   outcome |-> IF http_response'.status = 200 THEN "completed"
                               ELSE "AnalyzerFailed",
                   json_argument |-> json_argument(file_name),
                   returncode |-> returncode]
        /\ UNCHANGED <<scoreVars, reportVars, streamlit_running>>

ProcessAnalysisResult(response_data, llm) ==
    LET done == process_analysis_result(response_data, llm, slither_results,
                                        temp_report_data, streamlit_running)
    IN  /\ n_runs < MaxRuns
        /\ n_runs' = n_runs + 1
        /\ temp_report_data' = done.handoff
        /\ streamlit_running' = done.running
        /\ run' = [op |-> "process",
                   outcome |-> done.outcome,
                   loaded |-> done.loaded,
                   llm |-> llm,
                   prompt |-> response_data.prompt,
                   filename |-> response_data.filename,
                   llm_called |-> done.llm_called,
                   handoff_written |-> done.handoff_written,
                   server_started |-> done.server_started]
        /\ UNCHANGED <<scoreVars, page, rendered_at, uploaded_contracts, slither_results,
                       http_response>>

Next ==
    \/ \E n \in UploadNames, rc \in ReturnCodes, w \in AnalyzerWrites : UploadFile(n, rc, w)
    \/ \E c \in ContractNames, rc \in ReturnCodes, w \in AnalyzerWrites : UploadText(c, rc, w)
    \/ \E r \in ResponseData, llm \in LLMReturns : ProcessAnalysisResult(r, llm)
    \/ Render

Spec == Init /\ [][Next]_vars

(* ------------------------------- claims -------------------------------- *)

AllKnownImpacts(vulns) == \A k \in 1..Len(vulns) : vulns[k].impact \in ImpactLevel

\* the claimed tables, in tenths of a point
ClaimedWeight(impact) ==
    CASE impact = "High" -> 20
      [] impact = "Medium" -> 10
      [] impact = "Low" -> 5
      [] impact = "Informational" -> 2
      [] impact = "Optimization" -> 0
      [] OTHER -> 1

ClaimedMultiplier10(confidence) ==
    CASE confidence = "High" -> 10
      [] confidence = "Medium" -> 7
      [] confidence = "Low" -> 4
      [] OTHER -> 5

RECURSIVE ClaimedDeduction10(_)
ClaimedDeduction10(vulns) ==
    IF Len(vulns) = 0 THEN 0
    ELSE ClaimedWeight(Head(vulns).impact) * ClaimedMultiplier10(Head(vulns).confidence)
         + ClaimedDeduction10(Tail(vulns))

Max(a, b) == IF a >= b THEN a ELSE b

\* C1: for findings of known impact calculate returns, total_deduction is the
\* sum of weight x multiplier and total_score is max(0, 100 - total_deduction);
\* no findings give 100.0, 0.0, zero counts and the very-safe status, a single
\* High/High finding gives 80.0
C1_ScoreIsWeightedSum ==
    (security_score # NotComputed /\ AllKnownImpacts(vulnerabilities)) =>
        /\ security_score.error = "none"
        /\ security_score.total_deduction = ClaimedDeduction10(vulnerabilities)
        /\ security_score.total_score = Max(0, 1000 - ClaimedDeduction10(vulnerabilities))
        /\ vulnerabilities = <<>> =>
              /\ security_score.total_score = 1000
              /\ security_score.total_deduction = 0
              /\ \A i \in ImpactLevel : security_score.impact_counts[i] = 0
              /\ security_score.deployment_status = STATUS_VERY_SAFE
        /\ vulnerabilities = <<Finding("High", "High")>> =>
              security_score.total_score = 800

C1_Witness ==
    /\ vulnerabilities = <<Finding("High", "Medium"), Finding("Low", "Low"),
                           Finding("Informational", Unknown)>>
    /\ security_score # NotComputed
    /\ security_score.error = "none"
    /\ security_score.total_deduction = 170
    /\ security_score.total_score = 830

\* C2: calculate does not fail on a finding whose impact is outside the five
\* levels: a ScoreResult is returned and that finding deducts weight 1 times
\* its confidence multiplier
C2_UnknownImpactTallied ==
    (security_score # NotComputed /\ ~AllKnownImpacts(vulnerabilities)) =>
        /\ security_score.error = "none"
        /\ security_score.total_deduction = ClaimedDeduction10(vulnerabilities)

\* the band of a total_score given in tenths, lower bounds inclusive
ClaimedBand(score10) ==
    IF score10 >= 900 THEN STATUS_VERY_SAFE
    ELSE IF score10 >= 700 THEN STATUS_CAUTION
    ELSE IF score10 >= 500 THEN STATUS_FIX
    ELSE STATUS_PROHIBITED

\* C10: the deployment_status calculate returns is the band of the total_score
\* it returns
C10_StatusIsBandOfReturnedScore ==
    (security_score # NotComputed /\ security_score.error = "none") =>
        security_score.deployment_status = ClaimedBand(security_score.total_score)

\* the findings and the annotations the render phase parses from the hand-off
\* document
HandoffFindings == SlitherDataParser_parse(temp_report_data.data.json_data).vulnerabilities

HandoffAnnotations == GPTDataParser_parse(temp_report_data.data.detectors_gpt)

RenderedFromDocument == rendered_at >= 0 /\ temp_report_data.exists

IdsMatchUpTo(n) == \A k \in 1..n : HandoffFindings[k].id = HandoffAnnotations[k].id

\* C3: when the annotations are fewer or more than the findings (the ids of
\* the common prefix matching), the render phase fails and renders no report
C3_LengthMismatchIsFatal ==
    (/\ RenderedFromDocument
     /\ Len(HandoffFindings) # Len(HandoffAnnotations)
     /\ IdsMatchUpTo(Min(Len(HandoffFindings), Len(HandoffAnnotations))))
    => page.kind = "error"

\* C4: with as many annotations as findings and some pair of different ids,
\* the render phase fails with an assertion failure and renders nothing; no
\* detail that pairs a finding with an annotation of another id is displayed
C4_IdMismatchFailsAssertion ==
    RenderedFromDocument =>
        /\ (/\ Len(HandoffFindings) = Len(HandoffAnnotations)
            /\ ~IdsMatchUpTo(Len(HandoffFindings)))
           => (page.kind = "error" /\ page.exception = "AssertionError")
        /\ page.kind = "report" => IdsMatchUpTo(Len(page.vulnerability_details))

\* C9: a record with a field missing never makes the run fail: with as many
\* annotations as findings and all pairs of equal id, the report is rendered
C9_MissingFieldsNeverFatal ==
    (/\ RenderedFromDocument
     /\ Len(HandoffFindings) = Len(HandoffAnnotations)
     /\ IdsMatchUpTo(Len(HandoffFindings)))
    => page.kind = "report"

\* the analyzer document says the analysis did not succeed
ReportsFailure(json_data) ==
    \/ "success" \notin DOMAIN json_data
    \/ json_data.success # "true"
    \/ ("error" \in DOMAIN json_data /\ json_data.error # None)

\* C5: when the loaded document has a success flag that is not true or a
\* non-null error, process_analysis_result does not call the LLM, writes no
\* hand-off document and starts no dashboard server
C5_NoLLMCallOnReportedFailure ==
    (run.op = "process" /\ run.loaded.ok /\ ReportsFailure(run.loaded.json_data)) =>
        /\ ~run.llm_called
        /\ ~run.handoff_written
        /\ ~run.server_started

C5_Witness ==
    /\ run.op = "process"
    /\ run.loaded.ok
    /\ "error" \in DOMAIN run.loaded.json_data
    /\ run.loaded.json_data.error = "compilation failed"
    /\ run.outcome = "analyzer reported failure"
    /\ ~run.llm_called

AbortedRun ==
    \/ run.op = "upload" /\ run.outcome = "AnalyzerFailed"
    \/ run.op = "process" /\ run.outcome = "analyzer reported failure"

\* C6: when the most recent run aborted with a structural error, a page load
\* after it shows a failure state and no report
C6_FailureShownAfterAbortedRun ==
    (rendered_at = n_runs /\ AbortedRun) => page.kind = "error"

\* C7: when the file the analyzer was told to write does not exist after the
\* analyzer ran, the upload is answered with an error, whatever the exit
\* status, and no hand-off document is written
C7_MissingOutputFailsRun ==
    (/\ run.op = "upload"
     /\ run.outcome # "UploadRejected"
     /\ run.json_argument \notin DOMAIN slither_results)
    => (http_response.status = 500 /\ ~temp_report_data.exists)

\* C8: when the analyzer document reports success and the LLM call returns
\* its response, process_analysis_result writes the hand-off document with
\* exactly json_data, user_prompt, filename, summary_gpt and detectors_gpt,
\* the last two being the summary and detectors of the response
C8_HandoffWritten ==
    (/\ run.op = "process"
     /\ run.loaded.ok
     /\ ~ReportsFailure(run.loaded.json_data)
     /\ run.llm.text = "ai_response")
    => /\ temp_report_data.exists
       /\ temp_report_data.data =
              [json_data |-> run.loaded.json_data,
               user_prompt |-> run.prompt,
               filename |-> run.filename,
               summary_gpt |-> run.llm.value.summary,
               detectors_gpt |-> run.llm.value.detectors]

\* C11: every ScoreResult calculate returns has total_score between 0 and
\* 100 and total_deduction at least 0, and total_score is 0 once the summed
\* deductions exceed 100
C11_ScoreWithinBounds ==
    (security_score # NotComputed /\ security_score.error = "none") =>
        /\ security_score.total_score >= 0
        /\ security_score.total_score <= 1000
        /\ security_score.total_deduction >= 0
        /\ ClaimedDeduction10(vulnerabilities) > 1000 => security_score.total_score = 0

C11_Witness ==
    /\ vulnerabilities = [k \in 1..8 |-> Finding("High", "Medium")]
    /\ security_score # NotComputed
    /\ security_score.error = "none"
    /\ security_score.total_deduction = 1120
    /\ security_score.total_score = 0

HighHigh == Finding("High", "High")

\* C12: appending one High/High finding to a sequence calculate scores gives
\* a total_score that is not greater
C12_AppendHighHighNeverRaisesScore ==
    (security_score # NotComputed /\ security_score.error = "none") =>
        LET appended == calculate(Append(vulnerabilities, HighHigh))
        IN  /\ appended.error = "none"
            /\ appended.total_score <= security_score.total_score

C12_Witness ==
    /\ vulnerabilities = <<Finding("Low", "Low"), Finding("Medium", Unknown)>>
    /\ security_score # NotComputed
    /\ security_score.error = "none"
    /\ security_score.total_score = 930
    /\ calculate(Append(vulnerabilities, HighHigh)).total_score = 730

RECURSIVE ImpactsInOrder(_)
\* the impacts of a detail sequence, each once, in the order of first occurrence
ImpactsInOrder(details) ==
    IF details = <<>> THEN <<>>
    ELSE LET before == ImpactsInOrder(SubSeq(details, 1, Len(details) - 1))
             last   == details[Len(details)].vulnerability.impact
         IN  IF \E k \in 1..Len(before) : before[k] = last THEN before
             ELSE Append(before, last)

OfImpact(details, impact) ==
    LET Has(d) == d.vulnerability.impact = impact
    IN  SelectSeq(details, Has)

\* C13: the tabs of a rendered report partition its details by impact: one
\* group per impact in the order the impact is first seen, each group holding
\* exactly the details of its impact in their input order; [High f1, Low f2,
\* High f3] gives High: [f1, f3] then Low: [f2]
C13_GroupsPartitionInInputOrder ==
    page.kind = "report" =>
        LET details == page.vulnerability_details
            order   == ImpactsInOrder(details)
        IN  /\ Len(page.tabs) = Len(order)
            /\ \A g \in 1..Len(order) :
                   /\ page.tabs[g].impact = order[g]
                   /\ page.tabs[g].details = OfImpact(details, order[g])
            /\ (/\ Len(details) = 3
                /\ details[1].vulnerability.impact = "High"
                /\ details[2].vulnerability.impact = "Low"
                /\ details[3].vulnerability.impact = "High")
               => page.tabs = <<[impact |-> "High", details |-> <<details[1], details[3]>>],
                                [impact |-> "Low", details |-> <<details[2]>>]>>

C13_Witness ==
    /\ page.kind = "report"
    /\ Len(page.vulnerability_details) = 3
    /\ page.vulnerability_details[1].vulnerability.id = "A"
    /\ page.vulnerability_details[1].vulnerability.impact = "Low"
    /\ page.vulnerability_details[2].vulnerability.impact = "High"
    /\ page.vulnerability_details[3].vulnerability.impact = "Low"
    /\ Len(page.tabs) = 2
    /\ page.tabs[1].impact = "Low"
    /\ Len(page.tabs[1].details) = 2
    /\ page.tabs[1].details[2].vulnerability.id = "C"
    /\ page.tabs[2].impact = "High"

HandoffParsed == SlitherDataParser_parse(temp_report_data.data.json_data)

LacksDetectors(json_data) ==
    IF "results" \notin DOMAIN json_data THEN TRUE
    ELSE "detectors" \notin DOMAIN json_data.results

\* finding is parsed from record: every field the record holds is carried over
SourceOf(record, finding) == \A f \in DOMAIN record : finding[f] = record[f]

\* C14: SlitherDataParser.parse gives no findings for a document without the
\* results container or its detectors list; otherwise one finding per
\* detector record in input order, repeated records included, with the i-th
\* raw record the source of the i-th finding
C14_ParseKeepsEveryRecordInOrder ==
    RenderedFromDocument =>
        LET json_data == temp_report_data.data.json_data
        IN  /\ LacksDetectors(json_data) =>
                   /\ HandoffParsed.vulnerabilities = <<>>
                   /\ HandoffParsed.raw_detectors = <<>>
            /\ ~LacksDetectors(json_data) =>
                   /\ Len(HandoffParsed.vulnerabilities) = Len(json_data.results.detectors)
                   /\ HandoffParsed.raw_detectors = json_data.results.detectors
                   /\ \A k \in 1..Len(json_data.results.detectors) :
                          SourceOf(json_data.results.detectors[k],
                                   HandoffParsed.vulnerabilities[k])
            /\ page.kind = "report" =>
                   \A k \in 1..Len(page.vulnerability_details) :
                       page.vulnerability_details[k].vulnerability
                           = HandoffParsed.vulnerabilities[k]

C14_Witness ==
    /\ RenderedFromDocument
    /\ ~LacksDetectors(temp_report_data.data.json_data)
    /\ temp_report_data.data.json_data.results.detectors
           = <<Detector("B", "Low", <<FullElement>>), Detector("B", "Low", <<FullElement>>)>>
    /\ page.kind = "report"
    /\ Len(page.vulnerability_details) = 2
    /\ page.vulnerability_details[1] = page.vulnerability_details[2]

\* C15: run_slither_analysis checks and returns the path the analyzer is told
\* to write: when the analyzer exits with status 0 and writes its report to the
\* path it was given, no file of an earlier run being present, the upload is
\* answered with that path and no error is raised
C15_WrittenReportIsFound ==
    (/\ n_runs = 1
     /\ run.op = "upload"
     /\ run.outcome # "UploadRejected"
     /\ run.returncode = 0
     /\ run.json_argument \in DOMAIN slither_results)
    => /\ http_response.status = 200
       /\ http_response.analysis_result = run.json_argument

====
